---- MODULE Spec2Model ----
(***************************************************************************)
(* The bootcamp_data batch pipeline: run_etl (src/bootcamp_data/etl.py)    *)
(* and the two day scripts (scripts/run_day2_clean.py,                     *)
(* scripts/run_day3_build_analytics.py) as one state machine over a disk   *)
(* of files.  A behaviour runs one script, possibly several times in a     *)
(* row, over fixed source files.  The helpers of bootcamp_data.quality,    *)
(* .transforms, .joins and .io are not part of the sources at hand; they   *)
(* are written here from their contracts in sections 4 and 6 of spec.md.   *)
(***************************************************************************)
EXTENDS Integers, Sequences, FiniteSets, TLC

VARIABLES script, pc, result, error, run, disk, disk0,
          orders_raw, users, orders, analytics, calls, good

vars == <<script, pc, result, error, run, disk, disk0,
          orders_raw, users, orders, analytics, calls, good>>

(***************************************************************************)
(* Bounds of the model.                                                    *)
(***************************************************************************)
MaxOrders == 2
MaxRuns == 2
MaxStatusRows == 3
MaxAmountRows == 5

(***************************************************************************)
(* Cells.  A cell is null (pandas NA/NaN/NaT) or holds one value.          *)
(***************************************************************************)
Null == <<>>
Some(v) == <<v>>
IsNull(c) == c = <<>>
Val(c) == c[1]

Range(s) == {s[i] : i \in 1..Len(s)}
RECURSIVE Reverse(_)
Reverse(s) == IF s = <<>> THEN <<>> ELSE Append(Reverse(Tail(s)), Head(s))
RECURSIVE SumSeq(_)
SumSeq(s) == IF s = <<>> THEN 0 ELSE Head(s) + SumSeq(Tail(s))
SeqsUpTo(S, n) == UNION {[1..k -> S] : k \in 0..n}

(***************************************************************************)
(* Datasets: named columns and positionally aligned rows.                  *)
(***************************************************************************)
Dataset(cols, rows) == [cols |-> cols, rows |-> rows]
NoData == Dataset({}, <<>>)
DropField(r, f) == [k \in (DOMAIN r) \ {f} |-> r[k]]
DropColumns(df, cs) ==
    Dataset(df.cols \ cs,
            [i \in 1..Len(df.rows) |->
                [k \in (DOMAIN df.rows[i]) \ cs |-> df.rows[i][k]]])
Column(df, c) == [i \in 1..Len(df.rows) |-> df.rows[i][c]]

(***************************************************************************)
(* Text: a string is a sequence of characters.                             *)
(***************************************************************************)
UpperChars == <<"A","B","C","D","E","F","G","H","I","J","K","L","M",
                "N","O","P","Q","R","S","T","U","V","W","X","Y","Z">>
LowerChars == <<"a","b","c","d","e","f","g","h","i","j","k","l","m",
                "n","o","p","q","r","s","t","u","v","w","x","y","z">>
Whitespace == {" ", "\t"}
LowerChar(ch) ==
    IF \E i \in 1..Len(UpperChars) : UpperChars[i] = ch
    THEN LowerChars[CHOOSE i \in 1..Len(UpperChars) : UpperChars[i] = ch]
    ELSE ch
LowerText(s) == [i \in 1..Len(s) |-> LowerChar(s[i])]
RECURSIVE LStrip(_)
LStrip(s) == IF s # <<>> /\ Head(s) \in Whitespace THEN LStrip(Tail(s)) ELSE s
StripText(s) == Reverse(LStrip(Reverse(LStrip(s))))
RECURSIVE CollapseWhitespace(_)
CollapseWhitespace(s) ==
    IF s = <<>> THEN <<>>
    ELSE IF Head(s) \in Whitespace
         THEN <<" ">> \o CollapseWhitespace(LStrip(s))
         ELSE <<Head(s)>> \o CollapseWhitespace(Tail(s))

\* normalize_text: lowercase, strip, collapse inner whitespace; nulls pass.
NormalizeText(c) ==
    IF IsNull(c) THEN Null
    ELSE Some(CollapseWhitespace(StripText(LowerText(Val(c)))))

PAID == <<"p","a","i","d">>
REFUND == <<"r","e","f","u","n","d">>
REFUNDED == <<"r","e","f","u","n","d","e","d">>
\* The marker of a value the vocabulary does not know.
UNMAPPED == <<"<unmapped>">>

\* apply_mapping: exact-match lookup; no match gives the marker; nulls pass.
ApplyMapping(c, mapping) ==
    IF IsNull(c) THEN Null
    ELSE IF \E e \in mapping : e[1] = Val(c)
         THEN Some((CHOOSE e \in mapping : e[1] = Val(c))[2])
         ELSE Some(UNMAPPED)

\* status_map of transform() and mapping of the day-2 main().
status_map == {<<PAID, PAID>>, <<REFUND, REFUND>>, <<REFUNDED, REFUND>>}

StatusCleanNoNormalize(c) == ApplyMapping(c, status_map)
\* apply_mapping(normalize_text(d["status"]), status_map)
StatusClean(c) == ApplyMapping(NormalizeText(c), status_map)

(***************************************************************************)
(* Quality gate (bootcamp_data.quality).  Each check passes or fails; the  *)
(* operators give TRUE when the check passes.                              *)
(***************************************************************************)
RequireColumns(df, names) == names \subseteq df.cols
AssertNonEmpty(df) == Len(df.rows) > 0
AssertUniqueKey(df, key) ==
    \A i, j \in 1..Len(df.rows) : df.rows[i][key] = df.rows[j][key] => i = j
\* Nulls are exempt; hi is left at its default (no upper bound).
AssertInRange(col, lo) ==
    \A i \in 1..Len(col) : IsNull(col[i]) \/ Val(col[i]) >= lo

(***************************************************************************)
(* Transforms (bootcamp_data.transforms).                                  *)
(***************************************************************************)
\* enforce_schema casts column types; the cells of this model are typed
\* already, so every column and row is kept.
EnforceSchema(df) == Dataset(df.cols, df.rows)

AddMissingFlags(df) ==
    Dataset(df.cols \cup {"amount_missing", "quantity_missing"},
            [i \in 1..Len(df.rows) |->
                df.rows[i] @@ [amount_missing |-> IsNull(df.rows[i].amount),
                               quantity_missing |-> IsNull(df.rows[i].quantity)]])

MissingnessReport(df) ==
    [report |-> "missingness",
     by_column |-> [c \in df.cols |->
        [n_missing |-> Cardinality({i \in 1..Len(df.rows) : IsNull(df.rows[i][c])}),
         n_rows |-> Len(df.rows)]]]

\* The one timestamp text of the model that parses; any other text does not.
GoodTimestamp == "2024-03-05T14:00:00"
ParseTimestamp(c) ==
    IF IsNull(c) THEN Null
    ELSE IF Val(c) = GoodTimestamp
         THEN Some([year |-> 2024, month |-> 3, day |-> 5, hour |-> 14])
         ELSE Null
ParseDatetime(df) ==
    Dataset(df.cols,
            [i \in 1..Len(df.rows) |->
                [df.rows[i] EXCEPT !.created_at = ParseTimestamp(@)]])
TimePart(c, part) == IF IsNull(c) THEN Null ELSE Some(Val(c)[part])
AddTimeParts(df) ==
    Dataset(df.cols \cup {"year", "month", "day", "hour"},
            [i \in 1..Len(df.rows) |->
                df.rows[i] @@ [year |-> TimePart(df.rows[i].created_at, "year"),
                               month |-> TimePart(df.rows[i].created_at, "month"),
                               day |-> TimePart(df.rows[i].created_at, "day"),
                               hour |-> TimePart(df.rows[i].created_at, "hour")]])

\* .assign(status_clean = apply_mapping(normalize_text(d["status"]), status_map))
AssignStatusClean(df) ==
    Dataset(df.cols \cup {"status_clean"},
            [i \in 1..Len(df.rows) |->
                df.rows[i] @@ [status_clean |-> StatusClean(df.rows[i].status)]])

(***************************************************************************)
(* Outlier capper.  Amounts are integers, all multiples of AmountUnit, so  *)
(* that the quartiles (linear interpolation, in quarters) and the bounds   *)
(* q1 - 1.5 iqr, q3 + 1.5 iqr are integers and the divisions are exact,    *)
(* also for a column that was capped once.                                 *)
(***************************************************************************)
AmountUnit == 8 * 8
NonNull(col) == SelectSeq(col, LAMBDA c : ~IsNull(c))
Values(col) == [i \in 1..Len(NonNull(col)) |-> Val(NonNull(col)[i])]
Sorted(xs) == SortSeq(xs, LAMBDA a, b : a < b)
\* The quantile quarters/4 of a sorted, non-empty sequence.
Quantile(s, quarters) ==
    LET pos == (Len(s) - 1) * quarters
        idx == pos \div 4
        frac == pos % 4
    IN  IF frac = 0 THEN s[idx + 1]
        ELSE s[idx + 1] + (frac * (s[idx + 2] - s[idx + 1])) \div 4
IqrBounds(col) ==
    LET s == Sorted(Values(col))
        q1 == Quantile(s, 1)
        q3 == Quantile(s, 3)
        iqr == q3 - q1
    IN  [lo |-> q1 - (3 * iqr) \div 2, hi |-> q3 + (3 * iqr) \div 2]
Clip(x, lo, hi) == IF x < lo THEN lo ELSE IF x > hi THEN hi ELSE x
\* winsorize(series): clamp to the bounds; nulls pass; no values, no bounds.
Winsorize(col) ==
    IF Values(col) = <<>> THEN col
    ELSE LET b == IqrBounds(col)
         IN  [i \in 1..Len(col) |->
                IF IsNull(col[i]) THEN Null ELSE Some(Clip(Val(col[i]), b.lo, b.hi))]
Outside(col) ==
    IF Values(col) = <<>> THEN [i \in 1..Len(col) |-> FALSE]
    ELSE LET b == IqrBounds(col)
         IN  [i \in 1..Len(col) |->
                ~IsNull(col[i]) /\ (Val(col[i]) < b.lo \/ Val(col[i]) > b.hi)]
\* add_outlier_flag(df, "amount"): flags from the amount column df holds.
AddOutlierFlag(df) ==
    Dataset(df.cols \cup {"amount_outlier"},
            [i \in 1..Len(df.rows) |->
                df.rows[i] @@ [amount_outlier |-> Outside(Column(df, "amount"))[i]]])

(***************************************************************************)
(* Cardinality-checked joiner (bootcamp_data.joins), on user_id,           *)
(* validate = many_to_one.                                                 *)
(***************************************************************************)
Matches(l, rrows) == SelectSeq(rrows, LAMBDA r : r.user_id = l.user_id)
NullRow(cs) == [c \in cs |-> Null]
RECURSIVE LeftJoinRows(_, _, _)
LeftJoinRows(lrows, rrows, rcols) ==
    IF lrows = <<>> THEN <<>>
    ELSE LET l == Head(lrows)
             m == Matches(l, rrows)
             out == IF m = <<>> THEN <<l @@ NullRow(rcols)>>
                    ELSE [k \in 1..Len(m) |-> l @@ DropField(m[k], "user_id")]
         IN  out \o LeftJoinRows(Tail(lrows), rrows, rcols)
LeftJoin(left, right) ==
    Dataset(left.cols \cup right.cols,
            LeftJoinRows(left.rows, right.rows, right.cols \ {"user_id"}))
\* safe_left_join: the join, unless the right side breaks the cardinality.
SafeLeftJoin(left, right) ==
    IF AssertUniqueKey(right, "user_id")
    THEN [ok |-> TRUE, df |-> LeftJoin(left, right)]
    ELSE [ok |-> FALSE, df |-> NoData]

(***************************************************************************)
(* The disk.  ETLConfig names the six locations of run_etl; the day        *)
(* scripts use fixed paths under the repository root.                      *)
(***************************************************************************)
EtlSources == {"cfg.raw_orders", "cfg.raw_users"}
EtlOutputs == {"cfg.out_users", "cfg.out_analytics", "cfg.out_orders_clean"}
EtlDests == EtlOutputs \cup {"cfg.run_meta"}
Day2Sources == {"data/raw/orders.csv", "data/raw/users.csv"}
Day2Dests == {"reports/missingness_orders.csv",
              "data/processed/orders_clean.parquet",
              "data/processed/users.parquet"}
Day3Sources == {"data/processed/orders_clean.parquet",
                "data/processed/users.parquet"}
Day3Dests == {"data/processed/analytics_table.parquet",
              "reports/revenue_by_country.csv"}
Paths == EtlSources \cup EtlDests \cup Day2Sources \cup Day2Dests
         \cup Day3Sources \cup Day3Dests
Dests(s) == IF s = "etl" THEN EtlDests ELSE IF s = "day2" THEN Day2Dests ELSE Day3Dests
\* asdict(cfg)
ETLConfig == [raw_orders |-> "cfg.raw_orders", raw_users |-> "cfg.raw_users",
              out_orders_clean |-> "cfg.out_orders_clean",
              out_users |-> "cfg.out_users",
              out_analytics |-> "cfg.out_analytics",
              run_meta |-> "cfg.run_meta"]

OrdersRawColumns == {"order_id", "user_id", "amount", "quantity", "created_at", "status"}
OrdersCleanColumns == {"order_id", "user_id", "amount", "quantity", "created_at", "status_clean"}
UsersColumns == {"user_id", "country", "signup_date"}

(***************************************************************************)
(* Input data of the model.                                                *)
(***************************************************************************)
Text_Paid == <<"P","a","i","d">>
Text_REFUNDED == <<" ","R","E","F","U","N","D","E","D"," ">>
Text_paid == <<"p","a","i","d">>
Text_Refund == <<"\t","R","e","f","u","n","d">>
Text_Pending == <<"P","e","n","d","i","n","g">>
Text_Re_Fund == <<"r","e"," "," ","F","u","n","d">>

OrderRow(id, uid, amount, quantity, created, status) ==
    [order_id |-> Some(id), user_id |-> Some(uid), amount |-> amount,
     quantity |-> quantity, created_at |-> created, status |-> status]
UserRow(uid, country) ==
    [user_id |-> Some(uid), country |-> country, signup_date |-> Some("2023-01-01")]

OrdersPool ==
    { OrderRow("o1", "u1", Some(5 * AmountUnit), Some(1), Some(GoodTimestamp), Some(Text_Paid)),
      OrderRow("o2", "u2", Null, Null, Some("not-a-date"), Some(Text_REFUNDED)),
      OrderRow("o3", "u3", Some(7 * AmountUnit), Some(2), Null, Some(Text_Pending)),
      OrderRow("o4", "u1", Some((0 - 5) * AmountUnit), Some(3), Some(GoodTimestamp), Some(Text_paid)),
      OrderRow("o5", "u2", Some(2 * AmountUnit), Some(0 - 1), Some(GoodTimestamp), Null) }
\* Users tables: empty, one user, two users (one without country), and two
\* tables in which user_id u1 repeats.
UsersTables ==
    { <<>>,
      <<UserRow("u1", Some("SA"))>>,
      <<UserRow("u1", Some("SA")), UserRow("u2", Null)>>,
      <<UserRow("u1", Some("SA")), UserRow("u1", Some("US"))>>,
      <<UserRow("u2", Some("US")), UserRow("u1", Some("SA")), UserRow("u1", Some("SA"))>> }

StatusPool == {Some(Text_Paid), Some(Text_REFUNDED), Some(Text_paid), Some(Text_Refund),
               Some(Text_Re_Fund)}
StalePool == {FALSE, TRUE}
AmountPool == {Some(0), Some(AmountUnit), Null}

GoodUsers == Dataset(UsersColumns, <<UserRow("u1", Some("SA")), UserRow("u2", Null)>>)

\* What a script reads, by family of inputs: <<orders, users>> as raw files.
CoreInputs ==
    { <<Dataset(OrdersRawColumns, o), Dataset(UsersColumns, u)>> :
        o \in SeqsUpTo(OrdersPool, MaxOrders), u \in UsersTables }
    \cup
    { <<DropColumns(Dataset(OrdersRawColumns, <<r>>), co), DropColumns(GoodUsers, cu)>> :
        r \in OrdersPool, co \in {{}, {"amount"}}, cu \in {{}, {"country"}} }
StatusInputs ==
    { <<Dataset(OrdersRawColumns,
                [i \in 1..Len(st) |->
                    OrderRow("o1", "u1", Some(AmountUnit), Some(1), Some(GoodTimestamp), st[i])]),
        GoodUsers>> :
        st \in SeqsUpTo(StatusPool, MaxStatusRows) }
AmountInputs ==
    { <<Dataset(OrdersRawColumns,
                [i \in 1..Len(am) |->
                    OrderRow("o1", "u1", am[i], Some(1), Some(GoodTimestamp), Some(Text_paid))]),
        GoodUsers>> :
        am \in SeqsUpTo(AmountPool, MaxAmountRows) }

\* What an earlier run over other data left at a destination.
StaleMeta == [rows_in_orders_raw |-> 0, rows_in_users |-> 0, rows_out_analytics |-> 0,
              metrics |-> [missing_created_at |-> Some(0),
                           country_match_rate |-> Some([num |-> 0, den |-> 1])],
              config |-> ETLConfig]
Stale(p) ==
    IF p = "cfg.run_meta" THEN Some(StaleMeta)
    ELSE IF p = "reports/missingness_orders.csv"
         THEN Some([report |-> "missingness", by_column |-> <<>>])
         ELSE IF p = "reports/revenue_by_country.csv"
              THEN Some([report |-> "revenue_by_country", groups |-> {}])
              ELSE Some(Dataset({"stale"}, <<>>))

\* The day-2 cleaning of an orders table, as its main() composes it.
Day2Clean(df) == AddMissingFlags(AssignStatusClean(EnforceSchema(df)))

OrdersSource(s) ==
    IF s = "etl" THEN "cfg.raw_orders"
    ELSE IF s = "day2" THEN "data/raw/orders.csv"
         ELSE "data/processed/orders_clean.parquet"
UsersSource(s) ==
    IF s = "etl" THEN "cfg.raw_users"
    ELSE IF s = "day2" THEN "data/raw/users.csv"
         ELSE "data/processed/users.parquet"
FirstStep(s) == "load_inputs"

InitDisk(s, in, stale) ==
    [p \in Paths |->
        IF p = OrdersSource(s)
        THEN IF s = "day3" /\ RequireColumns(in[1], OrdersRawColumns)
             THEN Some(Day2Clean(in[1]))
             ELSE Some(in[1])
        ELSE IF p = UsersSource(s) THEN Some(in[2])
             ELSE IF p \in Dests(s) /\ stale THEN Stale(p)
                  ELSE Null]

InitWith(inputs, stales) ==
    /\ script \in {"etl", "day2", "day3"}
    /\ \E in \in inputs, stale \in stales : disk = InitDisk(script, in, stale)
    /\ disk0 = disk
    /\ pc = FirstStep(script)
    /\ result = "running"
    /\ error = ""
    /\ run = 1
    /\ orders_raw = NoData
    /\ users = NoData
    /\ orders = NoData
    /\ analytics = NoData
    /\ calls = <<>>
    /\ good = Null

Init == InitWith(CoreInputs, StalePool)
InitStatus == InitWith(StatusInputs, {FALSE})
InitAmount == InitWith(AmountInputs, {FALSE})

(***************************************************************************)
(* Steps.  A failing call leaves pc at the call and ends the run Failed.   *)
(* A read or a write that fails leaves the disk as it was.                 *)
(***************************************************************************)
Running(s, label) == script = s /\ result = "running" /\ pc = label
Pass(next) == pc' = next /\ UNCHANGED <<result, error>>
Raise(err) == pc' = pc /\ result' = "Failed" /\ error' = err
Succeed ==
    /\ pc' = "done"
    /\ result' = "Succeeded"
    /\ UNCHANGED error
    /\ good' = IF good = Null THEN Some([run |-> run, disk |-> disk']) ELSE good
Log(names) == calls' = calls \o names
WriteFile(path, content) == disk' = [disk EXCEPT ![path] = Some(content)]
AppendFile(path, content) == disk' = [disk EXCEPT ![path] = Append(@, content)]

(***************************************************************************)
(* run_etl: load_inputs, transform, load_outputs, write_run_meta.          *)
(***************************************************************************)
\* As EtlLoadInputs, but the users table is written as soon as it is read.
EtlLoadInputsWritesEarly ==
    /\ Running("etl", "load_inputs")
    /\ Log(<<"read_orders_csv", "read_users_csv">>)
    /\ \E ok \in BOOLEAN :
        IF ok
        THEN /\ orders_raw' = Val(disk[ETLConfig.raw_orders])
             /\ users' = Val(disk[ETLConfig.raw_users])
             /\ WriteFile(ETLConfig.out_users, Val(disk[ETLConfig.raw_users]))
             /\ Pass("require_columns")
        ELSE /\ UNCHANGED <<orders_raw, users, disk>>
             /\ Raise("SourceReadError")
    /\ UNCHANGED <<script, run, disk0, orders, analytics, good>>

EtlLoadInputs ==
    /\ Running("etl", "load_inputs")
    /\ Log(<<"read_orders_csv", "read_users_csv">>)
    /\ \E ok \in BOOLEAN :
        IF ok
        THEN /\ orders_raw' = Val(disk[ETLConfig.raw_orders])
             /\ users' = Val(disk[ETLConfig.raw_users])
             /\ Pass("require_columns")
        ELSE /\ UNCHANGED <<orders_raw, users>>
             /\ Raise("SourceReadError")
    /\ UNCHANGED <<script, run, disk, disk0, orders, analytics, good>>

EtlRequireColumns ==
    /\ Running("etl", "require_columns")
    /\ IF ~RequireColumns(orders_raw, OrdersRawColumns)
       THEN Log(<<"require_columns">>) /\ Raise("SchemaError")
       ELSE /\ Log(<<"require_columns", "require_columns">>)
            /\ IF RequireColumns(users, UsersColumns)
               THEN Pass("assert_non_empty")
               ELSE Raise("SchemaError")
    /\ UNCHANGED <<script, run, disk, disk0, orders_raw, users, orders, analytics, good>>

EtlAssertNonEmpty ==
    /\ Running("etl", "assert_non_empty")
    /\ IF ~AssertNonEmpty(orders_raw)
       THEN Log(<<"assert_non_empty">>) /\ Raise("EmptyDatasetError")
       ELSE /\ Log(<<"assert_non_empty", "assert_non_empty">>)
            /\ IF AssertNonEmpty(users)
               THEN Pass("assert_unique_key")
               ELSE Raise("EmptyDatasetError")
    /\ UNCHANGED <<script, run, disk, disk0, orders_raw, users, orders, analytics, good>>

\* As EtlAssertUniqueKey, with the check left out.
EtlSkipUniqueKey ==
    /\ Running("etl", "assert_unique_key")
    /\ Pass("clean_orders")
    /\ UNCHANGED <<script, run, disk, disk0, orders_raw, users, orders, analytics, good, calls>>

EtlAssertUniqueKey ==
    /\ Running("etl", "assert_unique_key")
    /\ Log(<<"assert_unique_key">>)
    /\ IF AssertUniqueKey(users, "user_id")
       THEN Pass("clean_orders")
       ELSE Raise("UniquenessError")
    /\ UNCHANGED <<script, run, disk, disk0, orders_raw, users, orders, analytics, good>>

EtlCleanOrders ==
    /\ Running("etl", "clean_orders")
    /\ Log(<<"enforce_schema", "normalize_text", "apply_mapping",
             "add_missing_flags", "parse_datetime", "add_time_parts">>)
    /\ orders' = AddTimeParts(ParseDatetime(AddMissingFlags(
                    AssignStatusClean(EnforceSchema(orders_raw)))))
    /\ Pass("safe_left_join")
    /\ UNCHANGED <<script, run, disk, disk0, orders_raw, users, analytics, good>>

EtlJoin ==
    /\ Running("etl", "safe_left_join")
    /\ Log(<<"safe_left_join">>)
    /\ LET r == SafeLeftJoin(orders, users)
       IN  IF r.ok
           THEN analytics' = r.df /\ Pass("winsorize")
           ELSE UNCHANGED analytics /\ Raise("JoinCardinalityError")
    /\ UNCHANGED <<script, run, disk, disk0, orders_raw, users, orders, good>>

\* analytics.assign(amount = winsorize(df["amount"]))
EtlWinsorize ==
    /\ Running("etl", "winsorize")
    /\ Log(<<"winsorize">>)
    /\ analytics' =
        Dataset(analytics.cols,
                [i \in 1..Len(analytics.rows) |->
                    [analytics.rows[i] EXCEPT
                        !.amount = Winsorize(Column(analytics, "amount"))[i]]])
    /\ Pass("add_outlier_flag")
    /\ UNCHANGED <<script, run, disk, disk0, orders_raw, users, orders, good>>

\* analytics.pipe(add_outlier_flag, col="amount"), on the capped column
EtlOutlierFlag ==
    /\ Running("etl", "add_outlier_flag")
    /\ Log(<<"add_outlier_flag">>)
    /\ analytics' = AddOutlierFlag(analytics)
    /\ Pass("write_users")
    /\ UNCHANGED <<script, run, disk, disk0, orders_raw, users, orders, good>>

EtlWriteUsers ==
    /\ Running("etl", "write_users")
    /\ Log(<<"write:cfg.out_users">>)
    /\ \E ok \in BOOLEAN :
        IF ok
        THEN WriteFile(ETLConfig.out_users, users) /\ Pass("write_analytics")
        ELSE UNCHANGED disk /\ Raise("SinkWriteError")
    /\ UNCHANGED <<script, run, disk0, orders_raw, users, orders, analytics, good>>

EtlWriteAnalytics ==
    /\ Running("etl", "write_analytics")
    /\ Log(<<"write:cfg.out_analytics">>)
    /\ \E ok \in BOOLEAN :
        IF ok
        THEN WriteFile(ETLConfig.out_analytics, analytics) /\ Pass("write_orders_clean")
        ELSE UNCHANGED disk /\ Raise("SinkWriteError")
    /\ UNCHANGED <<script, run, disk0, orders_raw, users, orders, analytics, good>>

\* The orders-only table: analytics without the user-side columns.
OrdersCleanOf(an, us) == DropColumns(an, (us.cols \ {"user_id"}) \cap an.cols)

\* As EtlWriteOrdersClean, but a failed write is swallowed and the run goes on.
EtlWriteOrdersCleanSwallows ==
    /\ Running("etl", "write_orders_clean")
    /\ Log(<<"write:cfg.out_orders_clean">>)
    /\ \E ok \in BOOLEAN :
        IF ok
        THEN WriteFile(ETLConfig.out_orders_clean, OrdersCleanOf(analytics, users))
        ELSE UNCHANGED disk
    /\ Pass("write_run_meta")
    /\ UNCHANGED <<script, run, disk0, orders_raw, users, orders, analytics, good>>

EtlWriteOrdersClean ==
    /\ Running("etl", "write_orders_clean")
    /\ Log(<<"write:cfg.out_orders_clean">>)
    /\ \E ok \in BOOLEAN :
        IF ok
        THEN /\ WriteFile(ETLConfig.out_orders_clean, OrdersCleanOf(analytics, users))
             /\ Pass("write_run_meta")
        ELSE UNCHANGED disk /\ Raise("SinkWriteError")
    /\ UNCHANGED <<script, run, disk0, orders_raw, users, orders, analytics, good>>

NullCount(df, c) == Cardinality({i \in 1..Len(df.rows) : IsNull(df.rows[i][c])})
\* 1.0 - isna().mean(), as an exact fraction of the row count
MatchRate(df) ==
    [num |-> Len(df.rows) - NullCount(df, "country"), den |-> Len(df.rows)]
\* As RunMeta, with the null fraction itself as the rate and the raw
\* created_at nulls as the count.
RunMetaWrongMetrics(cfg, oraw, us, an) ==
    [rows_in_orders_raw |-> Len(oraw.rows),
     rows_in_users |-> Len(us.rows),
     rows_out_analytics |-> Len(an.rows),
     metrics |->
        [missing_created_at |-> Some(NullCount(oraw, "created_at")),
         country_match_rate |->
            Some([num |-> NullCount(an, "country"), den |-> Len(an.rows)])],
     config |-> cfg]
RunMeta(cfg, oraw, us, an) ==
    [rows_in_orders_raw |-> Len(oraw.rows),
     rows_in_users |-> Len(us.rows),
     rows_out_analytics |-> Len(an.rows),
     metrics |->
        [missing_created_at |->
            IF "created_at" \in an.cols THEN Some(NullCount(an, "created_at")) ELSE Null,
         country_match_rate |->
            IF "country" \in an.cols THEN Some(MatchRate(an)) ELSE Null],
     config |-> cfg]

\* As EtlWriteRunMeta, with the file opened for appending.
EtlWriteRunMetaAppends ==
    /\ Running("etl", "write_run_meta")
    /\ Log(<<"write:cfg.run_meta">>)
    /\ \E ok \in BOOLEAN :
        IF ok
        THEN /\ AppendFile(ETLConfig.run_meta, RunMeta(ETLConfig, orders_raw, users, analytics))
             /\ Succeed
        ELSE UNCHANGED <<disk, good>> /\ Raise("SinkWriteError")
    /\ UNCHANGED <<script, run, disk0, orders_raw, users, orders, analytics>>

EtlWriteRunMeta ==
    /\ Running("etl", "write_run_meta")
    /\ Log(<<"write:cfg.run_meta">>)
    /\ \E ok \in BOOLEAN :
        IF ok
        THEN /\ WriteFile(ETLConfig.run_meta, RunMeta(ETLConfig, orders_raw, users, analytics))
             /\ Succeed
        ELSE UNCHANGED <<disk, good>> /\ Raise("SinkWriteError")
    /\ UNCHANGED <<script, run, disk0, orders_raw, users, orders, analytics>>

EtlNext ==
    \/ EtlLoadInputs
    \/ EtlRequireColumns
    \/ EtlAssertNonEmpty
    \/ EtlAssertUniqueKey
    \/ EtlCleanOrders
    \/ EtlJoin
    \/ EtlWinsorize
    \/ EtlOutlierFlag
    \/ EtlWriteUsers
    \/ EtlWriteAnalytics
    \/ EtlWriteOrdersClean
    \/ EtlWriteRunMeta

\* The same script is started again over the same source files.
Rerun ==
    /\ result \in {"Succeeded", "Failed"}
    /\ run < MaxRuns
    /\ run' = run + 1
    /\ pc' = FirstStep(script)
    /\ result' = "running"
    /\ error' = ""
    /\ disk0' = disk
    /\ orders_raw' = NoData
    /\ users' = NoData
    /\ orders' = NoData
    /\ analytics' = NoData
    /\ calls' = <<>>
    /\ UNCHANGED <<script, disk, good>>

(***************************************************************************)
(* scripts/run_day2_clean.py, main().  orders holds the script's `orders`  *)
(* and, after the cleaning step, its `orders_clean`.                       *)
(***************************************************************************)
D2Load ==
    /\ Running("day2", "load_inputs")
    /\ Log(<<"read_orders_csv", "read_users_csv">>)
    /\ \E ok \in BOOLEAN :
        IF ok
        THEN /\ orders_raw' = Val(disk["data/raw/orders.csv"])
             /\ users' = Val(disk["data/raw/users.csv"])
             /\ Pass("require_columns")
        ELSE /\ UNCHANGED <<orders_raw, users>>
             /\ Raise("SourceReadError")
    /\ UNCHANGED <<script, run, disk, disk0, orders, analytics, good>>

D2RequireColumns ==
    /\ Running("day2", "require_columns")
    /\ IF ~RequireColumns(orders_raw, OrdersRawColumns)
       THEN Log(<<"require_columns">>) /\ Raise("SchemaError")
       ELSE /\ Log(<<"require_columns", "require_columns">>)
            /\ IF RequireColumns(users, UsersColumns)
               THEN Pass("assert_non_empty")
               ELSE Raise("SchemaError")
    /\ UNCHANGED <<script, run, disk, disk0, orders_raw, users, orders, analytics, good>>

D2AssertNonEmpty ==
    /\ Running("day2", "assert_non_empty")
    /\ IF ~AssertNonEmpty(orders_raw)
       THEN Log(<<"assert_non_empty">>) /\ Raise("EmptyDatasetError")
       ELSE /\ Log(<<"assert_non_empty", "assert_non_empty">>)
            /\ IF AssertNonEmpty(users)
               THEN Pass("enforce_schema")
               ELSE Raise("EmptyDatasetError")
    /\ UNCHANGED <<script, run, disk, disk0, orders_raw, users, orders, analytics, good>>

D2EnforceSchema ==
    /\ Running("day2", "enforce_schema")
    /\ Log(<<"enforce_schema">>)
    /\ orders' = EnforceSchema(orders_raw)
    /\ Pass("write_missingness")
    /\ UNCHANGED <<script, run, disk, disk0, orders_raw, users, analytics, good>>

\* rep = missingness_report(orders); rep.to_csv(rep_path)
D2WriteMissingness ==
    /\ Running("day2", "write_missingness")
    /\ Log(<<"missingness_report", "write:reports/missingness_orders.csv">>)
    /\ \E ok \in BOOLEAN :
        IF ok
        THEN /\ WriteFile("reports/missingness_orders.csv", MissingnessReport(orders))
             /\ Pass("clean_orders")
        ELSE UNCHANGED disk /\ Raise("SinkWriteError")
    /\ UNCHANGED <<script, run, disk0, orders_raw, users, orders, analytics, good>>

D2CleanOrders ==
    /\ Running("day2", "clean_orders")
    /\ Log(<<"normalize_text", "apply_mapping", "add_missing_flags">>)
    /\ orders' = AddMissingFlags(AssignStatusClean(orders))
    /\ Pass("assert_in_range")
    /\ UNCHANGED <<script, run, disk, disk0, orders_raw, users, analytics, good>>

D2AssertInRange ==
    /\ Running("day2", "assert_in_range")
    /\ IF ~AssertInRange(Column(orders, "amount"), 0)
       THEN Log(<<"assert_in_range">>) /\ Raise("RangeError")
       ELSE /\ Log(<<"assert_in_range", "assert_in_range">>)
            /\ IF AssertInRange(Column(orders, "quantity"), 0)
               THEN Pass("write_orders_clean")
               ELSE Raise("RangeError")
    /\ UNCHANGED <<script, run, disk, disk0, orders_raw, users, orders, analytics, good>>

D2WriteOrdersClean ==
    /\ Running("day2", "write_orders_clean")
    /\ Log(<<"write:data/processed/orders_clean.parquet">>)
    /\ \E ok \in BOOLEAN :
        IF ok
        THEN /\ WriteFile("data/processed/orders_clean.parquet", orders)
             /\ Pass("write_users")
        ELSE UNCHANGED disk /\ Raise("SinkWriteError")
    /\ UNCHANGED <<script, run, disk0, orders_raw, users, orders, analytics, good>>

D2WriteUsers ==
    /\ Running("day2", "write_users")
    /\ Log(<<"write:data/processed/users.parquet">>)
    /\ \E ok \in BOOLEAN :
        IF ok
        THEN WriteFile("data/processed/users.parquet", users) /\ Succeed
        ELSE UNCHANGED <<disk, good>> /\ Raise("SinkWriteError")
    /\ UNCHANGED <<script, run, disk0, orders_raw, users, orders, analytics>>

Day2Next ==
    \/ D2Load
    \/ D2RequireColumns
    \/ D2AssertNonEmpty
    \/ D2EnforceSchema
    \/ D2WriteMissingness
    \/ D2CleanOrders
    \/ D2AssertInRange
    \/ D2WriteOrdersClean
    \/ D2WriteUsers

(***************************************************************************)
(* scripts/run_day3_build_analytics.py, main().  orders_raw holds the      *)
(* script's `orders`, orders its `orders_t`, analytics its `joined`.       *)
(***************************************************************************)
D3Load ==
    /\ Running("day3", "load_inputs")
    /\ Log(<<"read_parquet", "read_parquet">>)
    /\ \E ok \in BOOLEAN :
        IF ok
        THEN /\ orders_raw' = Val(disk["data/processed/orders_clean.parquet"])
             /\ users' = Val(disk["data/processed/users.parquet"])
             /\ Pass("require_columns")
        ELSE /\ UNCHANGED <<orders_raw, users>>
             /\ Raise("SourceReadError")
    /\ UNCHANGED <<script, run, disk, disk0, orders, analytics, good>>

D3RequireColumns ==
    /\ Running("day3", "require_columns")
    /\ IF ~RequireColumns(orders_raw, OrdersCleanColumns)
       THEN Log(<<"require_columns">>) /\ Raise("SchemaError")
       ELSE /\ Log(<<"require_columns", "require_columns">>)
            /\ IF RequireColumns(users, UsersColumns)
               THEN Pass("assert_non_empty")
               ELSE Raise("SchemaError")
    /\ UNCHANGED <<script, run, disk, disk0, orders_raw, users, orders, analytics, good>>

D3AssertNonEmpty ==
    /\ Running("day3", "assert_non_empty")
    /\ IF ~AssertNonEmpty(orders_raw)
       THEN Log(<<"assert_non_empty">>) /\ Raise("EmptyDatasetError")
       ELSE /\ Log(<<"assert_non_empty", "assert_non_empty">>)
            /\ IF AssertNonEmpty(users)
               THEN Pass("assert_unique_key")
               ELSE Raise("EmptyDatasetError")
    /\ UNCHANGED <<script, run, disk, disk0, orders_raw, users, orders, analytics, good>>

D3AssertUniqueKey ==
    /\ Running("day3", "assert_unique_key")
    /\ Log(<<"assert_unique_key">>)
    /\ IF AssertUniqueKey(users, "user_id")
       THEN Pass("time_parts")
       ELSE Raise("UniquenessError")
    /\ UNCHANGED <<script, run, disk, disk0, orders_raw, users, orders, analytics, good>>

D3TimeParts ==
    /\ Running("day3", "time_parts")
    /\ Log(<<"parse_datetime", "add_time_parts">>)
    /\ orders' = AddTimeParts(ParseDatetime(orders_raw))
    /\ Pass("safe_left_join")
    /\ UNCHANGED <<script, run, disk, disk0, orders_raw, users, analytics, good>>

D3Join ==
    /\ Running("day3", "safe_left_join")
    /\ Log(<<"safe_left_join">>)
    /\ LET r == SafeLeftJoin(orders, users)
       IN  IF r.ok
           THEN analytics' = r.df /\ Pass("row_count")
           ELSE UNCHANGED analytics /\ Raise("JoinCardinalityError")
    /\ UNCHANGED <<script, run, disk, disk0, orders_raw, users, orders, good>>

\* if len(joined) != len(orders_t): raise AssertionError(...)
D3RowCount ==
    /\ Running("day3", "row_count")
    /\ Log(<<"row_count_check">>)
    /\ IF Len(analytics.rows) # Len(orders.rows)
       THEN Raise("AssertionError")
       ELSE Pass("winsorize")
    /\ UNCHANGED <<script, run, disk, disk0, orders_raw, users, orders, analytics, good>>

\* joined.assign(amount_winsor = winsorize(joined["amount"]))
D3Winsorize ==
    /\ Running("day3", "winsorize")
    /\ Log(<<"winsorize">>)
    /\ analytics' =
        Dataset(analytics.cols \cup {"amount_winsor"},
                [i \in 1..Len(analytics.rows) |->
                    analytics.rows[i] @@
                        [amount_winsor |-> Winsorize(Column(analytics, "amount"))[i]]])
    /\ Pass("add_outlier_flag")
    /\ UNCHANGED <<script, run, disk, disk0, orders_raw, users, orders, good>>

\* add_outlier_flag(joined, "amount", k=1.5), on the uncapped column
D3OutlierFlag ==
    /\ Running("day3", "add_outlier_flag")
    /\ Log(<<"add_outlier_flag">>)
    /\ analytics' = AddOutlierFlag(analytics)
    /\ Pass("write_analytics")
    /\ UNCHANGED <<script, run, disk, disk0, orders_raw, users, orders, good>>

D3WriteAnalytics ==
    /\ Running("day3", "write_analytics")
    /\ Log(<<"write:data/processed/analytics_table.parquet">>)
    /\ \E ok \in BOOLEAN :
        IF ok
        THEN /\ WriteFile("data/processed/analytics_table.parquet", analytics)
             /\ Pass("write_summary")
        ELSE UNCHANGED disk /\ Raise("SinkWriteError")
    /\ UNCHANGED <<script, run, disk0, orders_raw, users, orders, analytics, good>>

\* groupby("country", dropna=False): group sizes and amount sums (nulls
\* skipped); the order of the groups is not modelled.
GroupRows(df, c) == SelectSeq(df.rows, LAMBDA r : r.country = c)
Summary(df) ==
    [report |-> "revenue_by_country",
     groups |-> { [country |-> c,
                   n |-> Len(GroupRows(df, c)),
                   revenue |-> SumSeq(Values(Column(Dataset(df.cols, GroupRows(df, c)),
                                                    "amount")))] :
                  c \in Range(Column(df, "country")) }]

D3WriteSummary ==
    /\ Running("day3", "write_summary")
    /\ Log(<<"write:reports/revenue_by_country.csv">>)
    /\ \E ok \in BOOLEAN :
        IF ok
        THEN WriteFile("reports/revenue_by_country.csv", Summary(analytics)) /\ Succeed
        ELSE UNCHANGED <<disk, good>> /\ Raise("SinkWriteError")
    /\ UNCHANGED <<script, run, disk0, orders_raw, users, orders, analytics>>

Day3Next ==
    \/ D3Load
    \/ D3RequireColumns
    \/ D3AssertNonEmpty
    \/ D3AssertUniqueKey
    \/ D3TimeParts
    \/ D3Join
    \/ D3RowCount
    \/ D3Winsorize
    \/ D3OutlierFlag
    \/ D3WriteAnalytics
    \/ D3WriteSummary

Next == EtlNext \/ Day2Next \/ Day3Next \/ Rerun
Spec == Init /\ [][Next]_vars
SpecStatus == InitStatus /\ [][Next]_vars
SpecAmount == InitAmount /\ [][Next]_vars

(***************************************************************************)
(* Properties.                                                             *)
(***************************************************************************)
EtlTransformSteps == {"load_inputs", "require_columns", "assert_non_empty",
                      "assert_unique_key", "clean_orders", "safe_left_join",
                      "winsorize", "add_outlier_flag"}
EtlLoadSteps == {"write_users", "write_analytics", "write_orders_clean"}
Wrote(path) == \E i \in 1..Len(calls) : calls[i] = path
HasDuplicateUserId(df) ==
    \E i, j \in 1..Len(df.rows) : i # j /\ df.rows[i].user_id = df.rows[j].user_id
HasNegative(df, c) ==
    /\ c \in df.cols
    /\ \E i \in 1..Len(df.rows) : ~IsNull(df.rows[i][c]) /\ Val(df.rows[i][c]) < 0

\* C1: a run of run_etl that fails in Extract or anywhere in transform() has
\* written nothing: every file holds what it held when the run started.
C1_NoWriteBeforeLoad ==
    (script = "etl" /\ result = "Failed" /\ pc \in EtlTransformSteps)
        => (disk = disk0 /\ \A p \in EtlDests : ~Wrote("write:" \o p))
\* A run that failed on the users key, over destinations that held files.
C1_Witness ==
    /\ script = "etl" /\ result = "Failed" /\ error = "UniquenessError"
    /\ disk["cfg.out_users"] # Null

\* C2: the metadata is written at most once per run, as the last write and
\* only once the three outputs are in place; a failed output write leaves
\* the metadata untouched and the outputs written before it in place.
C2_MetaLastNoRollback ==
    script = "etl" =>
        /\ Cardinality({i \in 1..Len(calls) : calls[i] = "write:cfg.run_meta"}) <= 1
        /\ Wrote("write:cfg.run_meta") =>
            /\ calls[Len(calls)] = "write:cfg.run_meta"
            /\ disk["cfg.out_users"] = Some(users)
            /\ disk["cfg.out_analytics"] = Some(analytics)
            /\ disk["cfg.out_orders_clean"] = Some(OrdersCleanOf(analytics, users))
        /\ (result = "Failed" /\ pc \in EtlLoadSteps) =>
            /\ ~Wrote("write:cfg.run_meta")
            /\ disk["cfg.run_meta"] = disk0["cfg.run_meta"]
            /\ pc \in {"write_analytics", "write_orders_clean"}
                => disk["cfg.out_users"] = Some(users)
            /\ pc = "write_orders_clean"
                => disk["cfg.out_analytics"] = Some(analytics)
\* The third output write failed after the first two replaced older files.
C2_Witness ==
    /\ script = "etl" /\ result = "Failed" /\ pc = "write_orders_clean"
    /\ disk["cfg.out_users"] # disk0["cfg.out_users"]
    /\ disk["cfg.out_analytics"] # disk0["cfg.out_analytics"]

\* C3: a run of run_etl over orders with a negative (non-null) amount or
\* quantity does not succeed and writes neither an output nor metadata.
C3_NegativeAborts ==
    (script = "etl" /\ (HasNegative(orders_raw, "amount") \/ HasNegative(orders_raw, "quantity")))
        => /\ result # "Succeeded"
           /\ disk = disk0

AnalyticsPath == IF script = "etl" THEN "cfg.out_analytics"
                 ELSE "data/processed/analytics_table.parquet"
C5_MetaReflectsOutputs ==
    (script = "etl" /\ result = "Succeeded") =>
        LET m == Val(disk["cfg.run_meta"])
            an == Val(disk["cfg.out_analytics"])
            oraw == Val(disk["cfg.raw_orders"])
            us == Val(disk["cfg.raw_users"])
            withCountry == {i \in 1..Len(an.rows) : an.rows[i].country # Null}
            matched == {i \in 1..Len(oraw.rows) :
                            \E j \in 1..Len(us.rows) :
                                /\ us.rows[j].user_id = oraw.rows[i].user_id
                                /\ us.rows[j].country # Null}
            rate == Val(m.metrics.country_match_rate)
        IN  /\ m.rows_in_orders_raw = Len(oraw.rows)
            /\ m.rows_in_users = Len(us.rows)
            /\ m.rows_out_analytics = Len(an.rows)
            /\ m.metrics.missing_created_at =
                 Some(Cardinality({i \in 1..Len(an.rows) : an.rows[i].created_at = Null}))
            /\ rate.den > 0
            /\ rate.num * Len(an.rows) = Cardinality(withCountry) * rate.den
            /\ rate.num * Len(oraw.rows) = Cardinality(matched) * rate.den
\* A successful run with an unparsed timestamp and a rate strictly between
\* 0 and 1.
C5_Witness ==
    /\ script = "etl" /\ result = "Succeeded"
    /\ Val(Val(disk["cfg.run_meta"]).metrics.missing_created_at) > 0
    /\ Val(Val(disk["cfg.run_meta"]).metrics.country_match_rate).num > 0
    /\ Val(Val(disk["cfg.run_meta"]).metrics.country_match_rate).num
         < Val(Val(disk["cfg.run_meta"]).metrics.country_match_rate).den

\* C6: when run_etl has succeeded once, every later successful run over
\* the same sources leaves every file exactly as that first run left it.
C6_Idempotent ==
    (script = "etl" /\ result = "Succeeded" /\ good # Null)
        => disk = Val(good).disk
\* The second run succeeded after the first one had.
C6_Witness ==
    /\ script = "etl" /\ result = "Succeeded" /\ run = 2
    /\ good # Null /\ Val(good).run = 1

ExpectedStatus(text) ==
    IF text \in {Text_Paid, Text_paid} THEN PAID
    ELSE IF text \in {Text_REFUNDED, Text_Refund} THEN REFUND
         ELSE UNMAPPED
\* C7: in run_etl and in the day-2 script, once the orders are cleaned the
\* row count is that of the raw orders and status_clean is the vocabulary
\* entry of the normalized status: "Paid", " REFUNDED ", "paid" give paid,
\* refund, paid; a status outside the vocabulary gives the marker, which is
\* no mapped output, and does not fail the run.
C7_StatusClean ==
    (script \in {"etl", "day2"}) =>
        /\ UNMAPPED \notin {e[2] : e \in status_map}
        /\ pc = "clean_orders" => result = "running"
        /\ "status_clean" \in orders.cols =>
            /\ Len(orders.rows) = Len(orders_raw.rows)
            /\ \A i \in 1..Len(orders.rows) :
                 orders_raw.rows[i].status # Null =>
                    orders.rows[i].status_clean =
                        Some(ExpectedStatus(Val(orders_raw.rows[i].status)))
            /\ Column(orders_raw, "status")
                    = <<Some(Text_Paid), Some(Text_REFUNDED), Some(Text_paid)>>
                 => Column(orders, "status_clean") = <<Some(PAID), Some(REFUND), Some(PAID)>>
\* The cleaned orders of the scenario.
C7_Witness ==
    /\ script = "etl" /\ "status_clean" \in orders.cols
    /\ Column(orders_raw, "status")
            = <<Some(Text_Paid), Some(Text_REFUNDED), Some(Text_paid)>>

OrdersTransforms == {"enforce_schema", "normalize_text", "apply_mapping",
                     "add_missing_flags", "parse_datetime", "add_time_parts",
                     "winsorize", "add_outlier_flag"}
\* C8: in run_etl and in the day-3 script assert_unique_key(users, user_id)
\* comes before safe_left_join and before every transform of the orders;
\* with a repeated user_id the run fails there, the join is never called
\* and nothing is written.
C8_UniqueKeyFirst ==
    (script \in {"etl", "day3"}) =>
        /\ \A i \in 1..Len(calls) :
            calls[i] \in OrdersTransforms \cup {"safe_left_join"}
                => \E j \in 1..(i - 1) : calls[j] = "assert_unique_key"
        /\ HasDuplicateUserId(users) =>
            /\ ~Wrote("safe_left_join")
            /\ disk = disk0
            /\ result # "Succeeded"
            /\ pc \in {"load_inputs", "require_columns", "assert_non_empty",
                       "assert_unique_key"}
            /\ (pc = "assert_unique_key" /\ result = "Failed") => error = "UniquenessError"
\* The run failed on the users key.
C8_Witness ==
    /\ script = "etl" /\ result = "Failed" /\ pc = "assert_unique_key"
    /\ HasDuplicateUserId(users) /\ Wrote("assert_unique_key")

\* C9: in the analytics table of transform() a row is flagged amount_outlier
\* exactly when capping changed its amount, that is when its amount before
\* the cap lay outside the bounds the cap used.
C9_FlagMatchesCap ==
    (script = "etl" /\ "amount_outlier" \in analytics.cols) =>
        \A i \in 1..Len(analytics.rows) :
            /\ analytics.rows[i].amount_outlier
                    <=> Outside(Column(orders, "amount"))[i]
            /\ analytics.rows[i].amount_outlier
                    <=> analytics.rows[i].amount # orders.rows[i].amount

\* C10: a run of the day-2 script that fails one of its checks
\* (require_columns, assert_non_empty, the two range checks) has written
\* no file.
C10_ChecksBeforeWrites ==
    (script = "day2" /\ result = "Failed"
        /\ pc \in {"require_columns", "assert_non_empty", "assert_in_range"})
        => disk = disk0

====
